---- MODULE Spec2Model ----
(***************************************************************************)
(* A model of the kpae crate (src/src/lib.rs): the serde wire codec of the *)
(* KataGo analysis protocol (KataAction -> JSON line, JSON line ->         *)
(* KataResponse) and the duplex channel `start` builds over a child        *)
(* process's stdin and stdout.                                             *)
(***************************************************************************)
EXTENDS Integers, Sequences, FiniteSets, TLC

(***************************************************************************)
(* JSON values, as serde_json hands them to the derived Deserialize impls. *)
(* A value is tagged with its JSON type; JAbsent marks a key that the      *)
(* object does not carry.                                                  *)
(***************************************************************************)
JAbsent == [t |-> "absent"]
JNull == [t |-> "null"]
JStr(s) == [t |-> "str", v |-> s]
JNum(n) == [t |-> "num", v |-> n]
JBool(b) == [t |-> "bool", v |-> b]
JArr(s) == [t |-> "arr", v |-> s]
JObj(o) == [t |-> "obj", v |-> o]

\* Rust's Option: None is the empty sequence, Some(v) the one-element one.
None == << >>
Some(v) == <<v>>

\* Rust's Result of a deserialization.
Err == [ok |-> FALSE]
Ok(v) == [ok |-> TRUE, v |-> v]

\* The value an object (a record of tagged values) carries under key k.
Get(obj, k) == IF k \in DOMAIN obj THEN obj[k] ELSE JAbsent
Has(obj, k) == Get(obj, k).t # "absent"

U16Max == 65535

\* Every deserializer fails on JAbsent: a required field whose key is missing
\* fails its struct.
DeString(v) == IF v.t = "str" THEN Ok(v.v) ELSE Err
DeBool(v) == IF v.t = "bool" THEN Ok(v.v) ELSE Err
DeU16(v) == IF v.t = "num" /\ v.v \in 0..U16Max THEN Ok(v.v) ELSE Err
\* u32: the numbers of the model all lie below 2^32, so only the sign decides.
DeU32(v) == IF v.t = "num" /\ v.v >= 0 THEN Ok(v.v) ELSE Err
DeF32(v) == IF v.t = "num" THEN Ok(v.v) ELSE Err

\* The unit-variant enums: each accepts exactly its renamed string.
DePlayer(v) ==
    IF v.t = "str" /\ v.v \in {"B", "W"}
    THEN Ok(IF v.v = "B" THEN "Black" ELSE "White") ELSE Err
DeActionQueryVersion(v) ==
    IF v.t = "str" /\ v.v = "query_version" THEN Ok("ActionQueryVersion") ELSE Err
DeActionClearCache(v) ==
    IF v.t = "str" /\ v.v = "clear_cache" THEN Ok("ActionClearCache") ELSE Err
DeActionTerminate(v) ==
    IF v.t = "str" /\ v.v = "terminate" THEN Ok("ActionTerminate") ELSE Err

\* A Rust String held by a decoded value, and the two values of GitHash.
RString(s) == [ty |-> "String", s |-> s]
GitHashOmitted == [ty |-> "GitHash", variant |-> "Omitted"]
GitHashIncluded(s) == [ty |-> "GitHash", variant |-> "Included", s |-> s]

\* GitHash (untagged): Omitted for the string "<omitted>", else Included.
DeGitHash(v) ==
    IF v.t # "str" THEN Err
    ELSE IF v.v = "<omitted>" THEN Ok(GitHashOmitted) ELSE Ok(GitHashIncluded(v.v))

\* The results of the elements or fields, gathered: all must have succeeded.
Collect(rs) ==
    IF \A i \in DOMAIN rs : rs[i].ok THEN Ok([i \in DOMAIN rs |-> rs[i].v]) ELSE Err

\* An Option field (with or without #[serde(default)]): a missing key and
\* null are None, anything else must deserialize as the inner type (r).
DeOption(v, r) ==
    IF v.t \in {"absent", "null"} THEN Ok(None)
    ELSE IF r.ok THEN Ok(Some(r.v)) ELSE Err

\* Vec<T>: a JSON array every element of which deserializes as T.
DeVecF32(v) ==
    IF v.t # "arr" THEN Err ELSE Collect([i \in DOMAIN v.v |-> DeF32(v.v[i])])
DeVecU32(v) ==
    IF v.t # "arr" THEN Err ELSE Collect([i \in DOMAIN v.v |-> DeU32(v.v[i])])
DeVecString(v) ==
    IF v.t # "arr" THEN Err ELSE Collect([i \in DOMAIN v.v |-> DeString(v.v[i])])

DeOptF32(v) == DeOption(v, DeF32(v))
DeOptU16(v) == DeOption(v, DeU16(v))
DeOptString(v) == DeOption(v, DeString(v))
DeOptPlayer(v) == DeOption(v, DePlayer(v))
DeOptVecF32(v) == DeOption(v, DeVecF32(v))
DeOptVecU32(v) == DeOption(v, DeVecU32(v))

DeRootInfo(v) ==
    IF v.t # "obj" THEN Err
    ELSE LET o == v.v
         IN Collect([winrate |-> DeF32(Get(o, "winrate")),
                     score_lead |-> DeF32(Get(o, "scoreLead")),
                     score_selfplay |-> DeF32(Get(o, "scoreSelfplay")),
                     utility |-> DeOptF32(Get(o, "utility")),
                     visits |-> DeU32(Get(o, "visits")),
                     this_hash |-> DeOptString(Get(o, "thisHash")),
                     sym_hash |-> DeOptString(Get(o, "symHash")),
                     current_player |-> DeOptPlayer(Get(o, "currentPlayer"))])

DeMoveInfo(v) ==
    IF v.t # "obj" THEN Err
    ELSE LET o == v.v
         IN Collect([move |-> DeString(Get(o, "move")),
                     winrate |-> DeF32(Get(o, "winrate")),
                     visits |-> DeU32(Get(o, "visits")),
                     score_lead |-> DeF32(Get(o, "scoreLead")),
                     score_selfplay |-> DeF32(Get(o, "scoreSelfplay")),
                     score_stdev |-> DeF32(Get(o, "scoreStdev")),
                     prior |-> DeF32(Get(o, "prior")),
                     utility |-> DeF32(Get(o, "utility")),
                     lcb |-> DeF32(Get(o, "lcb")),
                     utility_lcb |-> DeF32(Get(o, "utilityLcb")),
                     order |-> DeU16(Get(o, "order")),
                     is_symmetry_of |-> DeOptString(Get(o, "isSymmetryOf")),
                     pv |-> DeVecString(Get(o, "pv")),
                     pv_visits |-> DeOptVecU32(Get(o, "pvVisits")),
                     pv_edge_visits |-> DeOptVecU32(Get(o, "pvEdgeVisits")),
                     ownership |-> DeOptVecF32(Get(o, "ownership")),
                     ownership_stdev |-> DeOptVecF32(Get(o, "ownershipStdev"))])

DeVecMoveInfo(v) ==
    IF v.t # "arr" THEN Err ELSE Collect([i \in DOMAIN v.v |-> DeMoveInfo(v.v[i])])

(***************************************************************************)
(* The five variants of KataResponse, each matched against the top-level   *)
(* object of a line.  Keys a variant does not name are ignored (no         *)
(* deny_unknown_fields).                                                   *)
(***************************************************************************)
DeResult(o) ==
    Collect([variant |-> Ok("Result"),
             id |-> DeString(Get(o, "id")),
             is_during_search |-> DeBool(Get(o, "isDuringSearch")),
             move_infos |-> DeVecMoveInfo(Get(o, "moveInfos")),
             root_info |-> DeRootInfo(Get(o, "rootInfo")),
             ownership |-> DeOptVecF32(Get(o, "ownership")),
             ownership_stdev |-> DeOptVecF32(Get(o, "ownershipStdev")),
             policy |-> DeOptVecF32(Get(o, "policy"))])

DeResultless(o) ==
    Collect([variant |-> Ok("Resultless"),
             id |-> DeString(Get(o, "id")),
             is_during_search |-> DeBool(Get(o, "isDuringSearch")),
             turn_number |-> DeU16(Get(o, "turnNumber")),
             no_results |-> DeBool(Get(o, "noResults"))])

DeTerminateAck(o) ==
    Collect([variant |-> Ok("TerminateAck"),
             id |-> DeString(Get(o, "id")),
             action |-> DeActionTerminate(Get(o, "action")),
             turn_number |-> DeOptU16(Get(o, "turnNumber")),
             terminate_id |-> DeString(Get(o, "terminateId"))])

\* The git_hash field of Version: a plain String.
DeVersionGitHash(v) == IF v.t = "str" THEN Ok(RString(v.v)) ELSE Err

\* Variation: Version as it would decode under rename_all = "camelCase"
\* (the hash read from the key gitHash).
DeVersionCamel(o) ==
    Collect([variant |-> Ok("Version"),
             action |-> DeActionQueryVersion(Get(o, "action")),
             git_hash |-> DeVersionGitHash(Get(o, "gitHash")),
             id |-> DeString(Get(o, "id")),
             version |-> DeString(Get(o, "version"))])

\* Version carries no rename_all: its keys are the Rust field names, and
\* git_hash is a String (the GitHash type is not used here).
DeVersion(o) ==
    Collect([variant |-> Ok("Version"),
             action |-> DeActionQueryVersion(Get(o, "action")),
             git_hash |-> DeVersionGitHash(Get(o, "git_hash")),
             id |-> DeString(Get(o, "id")),
             version |-> DeString(Get(o, "version"))])

DeCacheCleared(o) ==
    Collect([variant |-> Ok("CacheCleared"),
             id |-> DeString(Get(o, "id")),
             action |-> DeActionClearCache(Get(o, "action"))])

DeVariant(name, o) ==
    CASE name = "Result" -> DeResult(o)
      [] name = "Resultless" -> DeResultless(o)
      [] name = "TerminateAck" -> DeTerminateAck(o)
      [] name = "Version" -> DeVersion(o)
      [] name = "CacheCleared" -> DeCacheCleared(o)

\* Variation: Resultless declared before Result.
VariantOrderResultlessFirst ==
    <<"Resultless", "Result", "TerminateAck", "Version", "CacheCleared">>

\* #[serde(untagged)]: the variants are tried in declaration order.
VariantOrder == <<"Result", "Resultless", "TerminateAck", "Version", "CacheCleared">>

\* The derived Deserialize of KataResponse: the first variant that matches.
DeKataResponse(o) ==
    LET rs == [i \in 1..Len(VariantOrder) |-> DeVariant(VariantOrder[i], o)]
        hits == {i \in 1..Len(VariantOrder) : rs[i].ok}
    IN IF hits = {} THEN Err
       ELSE rs[CHOOSE i \in hits : \A j \in hits : i <= j]

\* serde_json::from_str::<KataResponse>: the text must parse as JSON (here:
\* as a JSON object) and the object must match a variant.
from_str(line) ==
    IF line.kind # "json" THEN Err ELSE DeKataResponse(line.obj)

(***************************************************************************)
(* Serialization.  A Rust String is a sequence of characters; the derived  *)
(* Serialize impls build a JSON value (an object is the sequence of its    *)
(* <<key, value>> entries, in field order) and serde_json renders it as a  *)
(* sequence of tokens: a structural token, a key, or one character of a    *)
(* string.                                                                 *)
(***************************************************************************)
NL == "\n"
QUOTE == "\""
BACKSLASH == "\\"

\* f32 values: a number, or NaN (which serde_json writes as null).
F32(n) == [nan |-> FALSE, v |-> n]
F32NaN == [nan |-> TRUE]

SerString(s) == JStr(s)
SerBool(b) == JBool(b)
SerInt(n) == JNum(n)
SerF32(x) == IF x.nan THEN JNull ELSE JNum(x.v)

\* Player: "B" and "W".
SerPlayer(p) == JStr(IF p = "Black" THEN <<"B">> ELSE <<"W">>)

\* WhiteHandicapBonus: "0", "N", "N-1".
SerWhiteHandicapBonus(w) ==
    JStr(CASE w = "Zero" -> <<"0">>
           [] w = "N" -> <<"N">>
           [] w = "NMinusOne" -> <<"N-1">>)

\* Rules, rename_all = "kebab-case".
RulesWire ==
    [TrompTaylor |-> "tromp-taylor", Chinese |-> "chinese",
     ChineseOgs |-> "chinese-ogs", ChineseKgs |-> "chinese-kgs",
     Japanese |-> "japanese", Korean |-> "korean",
     StoneScoring |-> "stone-scoring", Aga |-> "aga", Bga |-> "bga",
     NewZealand |-> "new-zealand", AgaButton |-> "aga-button"]
SerRules(r) == JStr(<<RulesWire[r]>>)

\* A (Player, String) tuple is a two-element array.
SerPair(pr) == JArr(<<SerPlayer(pr[1]), SerString(pr[2])>>)

\* Vec<T> and [T; 1]: the array of the elements serialized.
SerVecInt(xs) == JArr([i \in DOMAIN xs |-> SerInt(xs[i])])
SerVecString(xs) == JArr([i \in DOMAIN xs |-> SerString(xs[i])])
SerVecPair(xs) == JArr([i \in DOMAIN xs |-> SerPair(xs[i])])

SerMoveGroup(g) ==
    JObj(<< <<"player", SerPlayer(g.player)>>,
            <<"moves", SerVecString(g.moves)>>,
            <<"untilDepth", SerInt(g.until_depth)>> >>)
SerVecMoveGroup(xs) == JArr([i \in DOMAIN xs |-> SerMoveGroup(xs[i])])

\* serde_json::Value serializes as itself.
SerValue(v) == v

\* Option<T>: what is inside, serialized (nothing for None).
SerOptInt(o) == [i \in DOMAIN o |-> SerInt(o[i])]
SerOptBool(o) == [i \in DOMAIN o |-> SerBool(o[i])]
SerOptF32(o) == [i \in DOMAIN o |-> SerF32(o[i])]
SerOptPlayer(o) == [i \in DOMAIN o |-> SerPlayer(o[i])]
SerOptWhiteHandicapBonus(o) == [i \in DOMAIN o |-> SerWhiteHandicapBonus(o[i])]
SerOptVecInt(o) == [i \in DOMAIN o |-> SerVecInt(o[i])]
SerOptVecPair(o) == [i \in DOMAIN o |-> SerVecPair(o[i])]
SerOptVecMoveGroup(o) == [i \in DOMAIN o |-> SerVecMoveGroup(o[i])]
SerOptValue(o) == [i \in DOMAIN o |-> SerValue(o[i])]

\* A field that is always written.
Entry(key, j) == << <<key, j>> >>

\* Variation: an Option field without skip_serializing_none (None is
\* written as null).
OptEntryNull(key, js) == IF DOMAIN js = {} THEN Entry(key, JNull) ELSE Entry(key, js[1])

\* An Option field under #[serde_with::skip_serializing_none]: None writes
\* nothing, Some(v) writes the key with v serialized (js: SerOpt.. of it).
OptEntry(key, js) == IF DOMAIN js = {} THEN << >> ELSE Entry(key, js[1])

\* KataQuery, rename_all = "camelCase", fields in declaration order.
SerKataQuery(q) ==
    Entry("id", SerString(q.id))
    \o OptEntry("initialStones", SerOptVecPair(q.initial_stones))
    \o Entry("moves", SerVecPair(q.moves))
    \o Entry("rules", SerRules(q.rules))
    \o OptEntry("initialPlayer", SerOptPlayer(q.initial_player))
    \o OptEntry("komi", SerOptF32(q.komi))
    \o OptEntry("whiteHandicapBonus", SerOptWhiteHandicapBonus(q.white_handicap_bonus))
    \o Entry("boardXSize", SerInt(q.board_x_size))
    \o Entry("boardYSize", SerInt(q.board_y_size))
    \o OptEntry("analyzeTurns", SerOptVecInt(q.analyze_turns))
    \o OptEntry("maxVisits", SerOptInt(q.max_visits))
    \o OptEntry("rootPolicyTemperature", SerOptF32(q.root_policy_temperature))
    \o OptEntry("rootFpuReductionMax", SerOptF32(q.root_fpu_reduction_max))
    \o OptEntry("anaysisPvLen", SerOptInt(q.anaysis_pv_len))
    \o OptEntry("includeOwnership", SerOptBool(q.include_ownership))
    \o OptEntry("inlcudeOwnershipStdev", SerOptBool(q.inlcude_ownership_stdev))
    \o OptEntry("includeMovesOwnership", SerOptBool(q.include_moves_ownership))
    \o OptEntry("includeMovesOwnershipStdev", SerOptBool(q.include_moves_ownership_stdev))
    \o OptEntry("includePolicy", SerOptBool(q.include_policy))
    \o OptEntry("includePvVisits", SerOptBool(q.include_pv_visits))
    \o OptEntry("avoidMoves", SerOptVecMoveGroup(q.avoid_moves))
    \o OptEntry("allowMoves", SerOptVecMoveGroup(q.allow_moves))
    \o OptEntry("overrideSettings", SerOptValue(q.override_settings))
    \o OptEntry("reportDuringSearchEvery", SerOptF32(q.report_during_search_every))
    \o OptEntry("priority", SerOptInt(q.priority))
    \o OptEntry("priorities", SerOptVecInt(q.priorities))

\* KataAction (untagged): the variant's fields alone; Query flattens its
\* inner KataQuery into the top level.
SerKataAction(a) ==
    JObj(CASE a.variant = "Query" -> SerKataQuery(a.inner)
           [] a.variant = "QueryVersion" ->
                Entry("id", SerString(a.id))
                \o Entry("action", JStr(<<"query_version">>))
           [] a.variant = "ClearCache" ->
                Entry("id", SerString(a.id))
                \o Entry("action", JStr(<<"clear_cache">>))
           [] a.variant = "Terminate" ->
                Entry("id", SerString(a.id))
                \o Entry("action", JStr(<<"terminate">>))
                \o Entry("terminateId", SerString(a.terminate_id))
                \o OptEntry("turnNumbers", SerOptVecInt(a.turn_numbers)))

\* serde_json's string escaping, one character at a time.
EscapeChar(c) ==
    CASE c = NL -> <<BACKSLASH, "n">>
      [] c = QUOTE -> <<BACKSLASH, QUOTE>>
      [] c = BACKSLASH -> <<BACKSLASH, BACKSLASH>>
      [] OTHER -> <<c>>

RECURSIVE Escape(_)
Escape(s) == IF s = << >> THEN << >> ELSE EscapeChar(Head(s)) \o Escape(Tail(s))

RECURSIVE Render(_)
RECURSIVE RenderItems(_)
RECURSIVE RenderEntries(_)
\* The elements of an array, comma-separated.
RenderItems(xs) ==
    IF xs = << >> THEN << >>
    ELSE Render(Head(xs))
         \o (IF Len(xs) > 1 THEN <<",">> ELSE << >>) \o RenderItems(Tail(xs))
\* The entries of an object, comma-separated.
RenderEntries(es) ==
    IF es = << >> THEN << >>
    ELSE <<QUOTE, Head(es)[1], QUOTE, ":">> \o Render(Head(es)[2])
         \o (IF Len(es) > 1 THEN <<",">> ELSE << >>) \o RenderEntries(Tail(es))
\* serde_json's compact rendering of a value.
Render(j) ==
    CASE j.t = "null" -> <<"null">>
      [] j.t = "bool" -> <<IF j.v THEN "true" ELSE "false">>
      [] j.t = "num" -> <<ToString(j.v)>>
      [] j.t = "str" -> <<QUOTE>> \o Escape(j.v) \o <<QUOTE>>
      [] j.t = "arr" -> <<"[">> \o RenderItems(j.v) \o <<"]">>
      [] j.t = "obj" -> <<"{">> \o RenderEntries(j.v) \o <<"}">>

\* serde_json::to_vec(&item): for the types of KataAction it has no error to
\* return.
to_vec(item) == Ok(Render(SerKataAction(item)))

(***************************************************************************)
(* The lines the decoder is run on.  A line is text that does not parse    *)
(* as JSON ("garbage"), bytes that are not UTF-8 ("badutf8"), or a JSON    *)
(* object, given by the value under each key (JAbsent: no such key).       *)
(***************************************************************************)
ValidRootInfo ==
    JObj([winrate |-> JNum(1), scoreLead |-> JNum(2), scoreSelfplay |-> JNum(2),
          visits |-> JNum(10)])
BadRootInfo == JObj([winrate |-> JNum(1)])
ValidMoveInfo ==
    JObj([move |-> JStr("D4"), winrate |-> JNum(1), visits |-> JNum(10),
          scoreLead |-> JNum(2), scoreSelfplay |-> JNum(2),
          scoreStdev |-> JNum(1), prior |-> JNum(0), utility |-> JNum(0),
          lcb |-> JNum(0), utilityLcb |-> JNum(0), order |-> JNum(0),
          pv |-> JArr(<<JStr("D4")>>)])

GarbageLine == [kind |-> "garbage", raw |-> "not json"]
BadUtf8Line == [kind |-> "badutf8", raw |-> "ff fe"]
JsonLine(o) == [kind |-> "json", obj |-> o]

LineObjects ==
    [id : {JAbsent, JStr("a1"), JStr("q1")},
     isDuringSearch : {JAbsent, JBool(FALSE)},
     moveInfos : {JAbsent, JArr(<<ValidMoveInfo>>)},
     rootInfo : {JAbsent, ValidRootInfo, BadRootInfo},
     ownership : {JAbsent, JNull, JArr(<<JNum(1)>>)},
     ownershipStdev : {JAbsent, JArr(<<JNum(1)>>)},
     policy : {JAbsent, JArr(<<JNum(1)>>)},
     turnNumber : {JAbsent, JNum(3), JNum(U16Max + 1)},
     noResults : {JAbsent, JBool(TRUE)},
     action : {JAbsent, JStr("query_version"), JStr("clear_cache"),
               JStr("terminate"), JStr("analyze")},
     terminateId : {JAbsent, JStr("a1")},
     git_hash : {JAbsent, JStr("<omitted>"), JStr("0b0c29")},
     gitHash : {JAbsent, JStr("<omitted>")},
     version : {JAbsent, JStr("1.0")}]

DecodeLines == {GarbageLine} \cup {JsonLine(o) : o \in LineObjects}

(***************************************************************************)
(* The actions the encoder is run on: every variant, a Query with up to    *)
(* MaxSetFields of its optional fields set.                                *)
(***************************************************************************)
MaxSetFields == 2

IdCand == {<<"q", "1">>, <<"a", NL, QUOTE>>}

StoneB == <<"Black", <<"D", "4">>>>
MoveGroupW == [player |-> "White", moves |-> <<<<"C", "3">>>>, until_depth |-> 2]

OptFields ==
    {"initial_stones", "initial_player", "komi", "white_handicap_bonus",
     "analyze_turns", "max_visits", "root_policy_temperature",
     "root_fpu_reduction_max", "anaysis_pv_len", "include_ownership",
     "inlcude_ownership_stdev", "include_moves_ownership",
     "include_moves_ownership_stdev", "include_policy", "include_pv_visits",
     "avoid_moves", "allow_moves", "override_settings",
     "report_during_search_every", "priority", "priorities"}

\* The values an optional field is set to.
OptCand ==
    [initial_stones |-> {<< >>, <<StoneB>>},
     initial_player |-> {"White"},
     komi |-> {F32(7), F32NaN},
     white_handicap_bonus |-> {"NMinusOne"},
     analyze_turns |-> {<< >>, <<0, 1>>},
     max_visits |-> {100},
     root_policy_temperature |-> {F32(1)},
     root_fpu_reduction_max |-> {F32(0)},
     anaysis_pv_len |-> {5},
     include_ownership |-> {TRUE},
     inlcude_ownership_stdev |-> {FALSE},
     include_moves_ownership |-> {TRUE},
     include_moves_ownership_stdev |-> {FALSE},
     include_policy |-> {TRUE},
     include_pv_visits |-> {TRUE},
     avoid_moves |-> {<< >>, <<MoveGroupW>>},
     allow_moves |-> {<<MoveGroupW>>},
     override_settings |-> {JNull, JObj(<< >>), JObj(<< <<"maxVisits", JNum(5)>> >>)},
     report_during_search_every |-> {F32(1)},
     priority |-> {-1},
     priorities |-> {<< >>, <<1>>}]

\* What KataQuery::builder() builds when only the required fields are set.
BaseQuery(id) ==
    [id |-> id, initial_stones |-> None, moves |-> <<StoneB>>,
     rules |-> "NewZealand", initial_player |-> None, komi |-> None,
     white_handicap_bonus |-> None, board_x_size |-> 19, board_y_size |-> 19,
     analyze_turns |-> None, max_visits |-> None,
     root_policy_temperature |-> None, root_fpu_reduction_max |-> None,
     anaysis_pv_len |-> None, include_ownership |-> None,
     inlcude_ownership_stdev |-> None, include_moves_ownership |-> None,
     include_moves_ownership_stdev |-> None, include_policy |-> None,
     include_pv_visits |-> None, avoid_moves |-> None, allow_moves |-> None,
     override_settings |-> None, report_during_search_every |-> None,
     priority |-> None, priorities |-> None]

RECURSIVE QueriesWith(_)
QueriesWith(n) ==
    IF n = 0 THEN {BaseQuery(id) : id \in IdCand}
    ELSE LET prev == QueriesWith(n - 1)
         IN prev \cup UNION {{[pf[1] EXCEPT ![pf[2]] = Some(v)] : v \in OptCand[pf[2]]} :
                              pf \in prev \X OptFields}

Query(q) == [variant |-> "Query", inner |-> q]
QueryVersion(id) == [variant |-> "QueryVersion", id |-> id]
ClearCache(id) == [variant |-> "ClearCache", id |-> id]
Terminate(id, tid, tn) ==
    [variant |-> "Terminate", id |-> id, terminate_id |-> tid, turn_numbers |-> tn]

EncodeActions ==
    {Query(q) : q \in QueriesWith(MaxSetFields)}
    \cup {QueryVersion(id) : id \in IdCand}
    \cup {ClearCache(id) : id \in IdCand}
    \cup {Terminate(id, <<"q", "1">>, tn) :
            id \in IdCand, tn \in {None, Some(<< >>), Some(<<1, 2>>)}}

\* Variation: an encoder that appends the item's JSON without the newline.
KataActionEncoder_encodeNoNewline(item, dst) ==
    LET r == to_vec(item)
    IN IF ~r.ok THEN [panic |-> TRUE, dst |-> dst]
       ELSE [panic |-> FALSE, dst |-> dst \o r.v]

(***************************************************************************)
(* KataActionEncoder::encode: the item's JSON and a newline are appended   *)
(* to dst; a serialization error would panic in unwrap().                  *)
(***************************************************************************)
KataActionEncoder_encode(item, dst) ==
    LET r == to_vec(item)
    IN IF ~r.ok THEN [panic |-> TRUE, dst |-> dst]
       ELSE [panic |-> FALSE, dst |-> dst \o r.v \o <<NL>>]

(***************************************************************************)
(* The duplex channel.  The child process is the environment: it writes    *)
(* lines to its stdout and may exit; whether spawning it succeeds is the   *)
(* operating system's choice.                                              *)
(***************************************************************************)
MaxLines == 3
MaxActions == 2

\* Lines the engine writes: two progress lines for different ids, an error
\* reply (a JSON object of none of the five shapes), text that is not JSON,
\* and bytes that are not UTF-8.
ResultlessLine(id) ==
    JsonLine([id |-> JStr(id), isDuringSearch |-> JBool(FALSE),
              turnNumber |-> JNum(3), noResults |-> JBool(TRUE)])
ErrorLine == JsonLine([id |-> JStr("a1"), error |-> JStr("bad query")])
StreamLines ==
    {ResultlessLine("a1"), ResultlessLine("q1"), ErrorLine, GarbageLine, BadUtf8Line}

\* Actions the caller submits.
SinkActions ==
    {QueryVersion(<<"a", NL, QUOTE>>), ClearCache(<<"q", "1">>),
     Terminate(<<"t", "1">>, <<"q", "1">>, Some(<< >>))}

VARIABLES
    decLine,      \* the line handed to serde_json::from_str
    decOut,       \* its result, once decoded
    encAction,    \* the KataAction handed to the encoder
    encOut,       \* the BytesMut after encode, once encoded
    spawned,      \* "no", "ok", "failed": the outcome of Command::spawn
    startState,   \* "init", "running" (start returned the pair), "panicked"
    emitted,      \* the lines the process has written to stdout
    procExited,   \* the process closed its stdout (EOF follows the lines)
    readPos,      \* how many lines the stream has taken from the pipe
    yielded,      \* the items the stream has yielded, in order
    streamState,  \* "open", "done" (yielded None), "panicked"
    submitted,    \* the actions accepted by start_send, in order
    sinkBuf,      \* FramedWrite's buffer: encoded, not yet written
    stdinBytes,   \* what has been written to the process's stdin
    sinkState     \* "open", "closed", "panicked"

decVars == <<decLine, decOut>>
encVars == <<encAction, encOut>>
startVars == <<spawned, startState>>
streamVars == <<emitted, procExited, readPos, yielded, streamState>>
sinkVars == <<submitted, sinkBuf, stdinBytes>>
vars == <<decVars, encVars, startVars, streamVars, sinkVars, sinkState>>

Pending == [st |-> "pending"]
Done(r) == [st |-> "done", r |-> r]

DecodeIdle == decLine = GarbageLine /\ decOut = Pending
EncodeIdle == encAction = QueryVersion(<<"q", "1">>) /\ encOut = Pending
ChannelInit ==
    /\ spawned = "no"
    /\ startState = "init"
    /\ emitted = << >>
    /\ procExited = FALSE
    /\ readPos = 0
    /\ yielded = << >>
    /\ streamState = "open"
    /\ submitted = << >>
    /\ sinkBuf = << >>
    /\ stdinBytes = << >>
    /\ sinkState = "open"

(***************************************************************************)
(* The decoder alone, on one line.                                         *)
(***************************************************************************)
InitDecode ==
    /\ decLine \in DecodeLines
    /\ decOut = Pending
    /\ EncodeIdle
    /\ ChannelInit

DecodeLine ==
    /\ decOut = Pending
    /\ decOut' = Done(from_str(decLine))
    /\ UNCHANGED <<decLine, encVars, startVars, streamVars, sinkVars, sinkState>>

NextDecode == DecodeLine

SpecDecode == InitDecode /\ [][NextDecode]_vars

(***************************************************************************)
(* The encoder alone, on one action and an empty buffer.                   *)
(***************************************************************************)
InitEncode ==
    /\ encAction \in EncodeActions
    /\ encOut = Pending
    /\ DecodeIdle
    /\ ChannelInit

EncodeAction ==
    /\ encOut = Pending
    /\ encOut' = Done(KataActionEncoder_encode(encAction, << >>))
    /\ UNCHANGED <<encAction, decVars, startVars, streamVars, sinkVars, sinkState>>

NextEncode == EncodeAction

SpecEncode == InitEncode /\ [][NextEncode]_vars

(***************************************************************************)
(* start(): spawn the command with both pipes redirected and wrap them.    *)
(* The result of spawn() is unwrapped: a failure panics in the caller.     *)
(***************************************************************************)
Start ==
    /\ startState = "init"
    /\ \E outcome \in {"ok", "failed"} :
         /\ spawned' = outcome
         /\ startState' = IF outcome = "ok" THEN "running" ELSE "panicked"
    /\ UNCHANGED <<decVars, encVars, streamVars, sinkVars, sinkState>>

\* The process writes one more line to its stdout.
ProcEmit ==
    /\ startState = "running"
    /\ ~procExited
    /\ Len(emitted) < MaxLines
    /\ \E l \in StreamLines : emitted' = Append(emitted, l)
    /\ UNCHANGED <<decVars, encVars, startVars, procExited, readPos, yielded,
                   streamState, sinkVars, sinkState>>

\* The process exits: its stdout reaches end-of-file.
ProcExit ==
    /\ startState = "running"
    /\ ~procExited
    /\ procExited' = TRUE
    /\ UNCHANGED <<decVars, encVars, startVars, emitted, readPos, yielded,
                   streamState, sinkVars, sinkState>>

\* What the two map closures make of one item of LinesStream: a read error
\* (the line is not UTF-8) panics in the first unwrap, a line that does not
\* decode panics in the second, any other line is its KataResponse.
MapLine(l) ==
    IF l.kind = "badutf8" THEN [panic |-> TRUE]
    ELSE LET r == from_str(l)
         IN IF ~r.ok THEN [panic |-> TRUE] ELSE [panic |-> FALSE, item |-> r.v]

\* poll_next with a line in the pipe.
PollLine ==
    /\ startState = "running"
    /\ streamState = "open"
    /\ readPos < Len(emitted)
    /\ readPos' = readPos + 1
    /\ LET r == MapLine(emitted[readPos + 1])
       IN IF r.panic
          THEN streamState' = "panicked" /\ yielded' = yielded
          ELSE streamState' = streamState /\ yielded' = Append(yielded, r.item)
    /\ UNCHANGED <<decVars, encVars, startVars, emitted, procExited, sinkVars,
                   sinkState>>

\* poll_next at end-of-file: LinesStream yields None and so do the maps.
PollEof ==
    /\ startState = "running"
    /\ streamState = "open"
    /\ readPos = Len(emitted)
    /\ procExited
    /\ streamState' = "done"
    /\ UNCHANGED <<decVars, encVars, startVars, emitted, procExited, readPos,
                   yielded, sinkVars, sinkState>>

\* start_send: FramedWrite encodes the item into its buffer.
SinkSend ==
    /\ startState = "running"
    /\ sinkState = "open"
    /\ Len(submitted) < MaxActions
    /\ \E a \in SinkActions :
         LET r == KataActionEncoder_encode(a, sinkBuf)
         IN IF r.panic
            THEN sinkState' = "panicked" /\ UNCHANGED sinkVars
            ELSE /\ sinkBuf' = r.dst
                 /\ submitted' = Append(submitted, a)
                 /\ UNCHANGED <<stdinBytes, sinkState>>
    /\ UNCHANGED <<decVars, encVars, startVars, streamVars>>

\* What one write of n bytes leaves: the bytes taken by the pipe move from the
\* front of the buffer to the end of stdin.
WriteSome(buf, out, n) == [buf |-> SubSeq(buf, n + 1, Len(buf)), out |-> out \o SubSeq(buf, 1, n)]

\* poll_flush: the pipe takes some of the buffered bytes.
SinkFlush ==
    /\ startState = "running"
    /\ sinkState = "open"
    /\ sinkBuf # << >>
    /\ \E n \in 1..Len(sinkBuf) :
         LET w == WriteSome(sinkBuf, stdinBytes, n)
         IN sinkBuf' = w.buf /\ stdinBytes' = w.out
    /\ UNCHANGED <<decVars, encVars, startVars, streamVars, submitted, sinkState>>

\* poll_close, once the buffer is flushed: stdin is shut down (dropping the
\* sink releases the handle likewise).
SinkClose ==
    /\ startState = "running"
    /\ sinkState = "open"
    /\ sinkBuf = << >>
    /\ sinkState' = "closed"
    /\ UNCHANGED <<decVars, encVars, startVars, streamVars, sinkVars>>

Init ==
    /\ DecodeIdle
    /\ EncodeIdle
    /\ ChannelInit

\* The read half: the process, the stream, and the sink being closed.
NextStream == Start \/ ProcEmit \/ ProcExit \/ PollLine \/ PollEof \/ SinkClose

SpecStream == Init /\ [][NextStream]_vars

\* The write half.
NextSink == Start \/ SinkSend \/ SinkFlush \/ SinkClose

SpecSink == Init /\ [][NextSink]_vars

Next == NextStream \/ SinkSend \/ SinkFlush

Spec == Init /\ [][Next]_vars

(***************************************************************************)
(* Reading the wire back: what a JSON-lines reader on the other end of the *)
(* pipe sees in a sequence of tokens.                                      *)
(***************************************************************************)
\* One step of a JSON scanner, at token i of the line ts: st.depth is the
\* nesting depth, st.inStr and st.esc say whether the scanner is inside a
\* string and after a backslash, st.entries are the <<key, first token of
\* the value>> pairs of the outermost object, st.zeros the positions where
\* the depth came back to zero.
ScanStep(ts, i, st) ==
    LET t == ts[i]
    IN IF st.inStr
       THEN IF st.esc THEN [st EXCEPT !.esc = FALSE]
            ELSE IF t = BACKSLASH THEN [st EXCEPT !.esc = TRUE]
            ELSE IF t = QUOTE THEN [st EXCEPT !.inStr = FALSE]
            ELSE st
       ELSE IF t \in {"{", "["} THEN [st EXCEPT !.depth = @ + 1]
       ELSE IF t \in {"}", "]"}
       THEN [st EXCEPT !.depth = @ - 1,
                       !.zeros = IF st.depth = 1 THEN @ \cup {i} ELSE @]
       ELSE IF t = QUOTE /\ st.depth = 1 /\ i + 4 <= Len(ts)
               /\ ts[i + 2] = QUOTE /\ ts[i + 3] = ":"
       THEN [st EXCEPT !.inStr = TRUE,
                       !.entries = @ \cup {<<ts[i + 1], ts[i + 4]>>}]
       ELSE IF t = QUOTE THEN [st EXCEPT !.inStr = TRUE]
       ELSE st

\* The scanner run over tokens a..b, by halves; it stops where a bracket
\* closes that was never opened.
RECURSIVE Scan(_, _, _, _)
Scan(ts, a, b, st) ==
    IF st.depth < 0 \/ a > b THEN st
    ELSE IF a = b THEN ScanStep(ts, a, st)
    ELSE LET mid == (a + b) \div 2
         IN Scan(ts, mid + 1, b, Scan(ts, a, mid, st))

ScanLine(ts) ==
    Scan(ts, 1, Len(ts),
         [depth |-> 0, inStr |-> FALSE, esc |-> FALSE, entries |-> {},
          zeros |-> {}])

\* The line is exactly one JSON object: it opens with a brace and the
\* nesting closes at its last token and nowhere before.
OneObject(ts) ==
    /\ ts # << >>
    /\ ts[1] = "{"
    /\ ScanLine(ts).zeros = {Len(ts)}
    /\ ~ScanLine(ts).inStr

\* The keys of the outermost object of a line.
TopKeys(ts) == {e[1] : e \in ScanLine(ts).entries}

\* The newline-terminated lines of a byte sequence, and what follows the
\* last newline.
RECURSIVE SplitLines(_, _, _)
SplitLines(w, cur, acc) ==
    IF w = << >> THEN [lines |-> acc, rest |-> cur]
    ELSE IF Head(w) = NL THEN SplitLines(Tail(w), << >>, Append(acc, cur))
    ELSE SplitLines(Tail(w), Append(cur, Head(w)), acc)

WireLines(w) == SplitLines(w, << >>, << >>)

(***************************************************************************)
(* C1.  Every line read from stdout that is not valid JSON or matches none *)
(* of the five Response shapes is yielded by the stream as a decode-error  *)
(* item carrying the raw line, in its place among the items, and the task  *)
(* polling the stream is not aborted (so later lines are still yielded).   *)
(***************************************************************************)
Undecodable(l) == l.kind = "garbage" \/ (l.kind = "json" /\ ~from_str(l).ok)
DecodeErrorItem(l) == [variant |-> "DecodeError", raw |-> l]

C1_DecodeErrorIsYielded ==
    \A i \in 1..readPos :
        Undecodable(emitted[i]) =>
            /\ streamState # "panicked"
            /\ i <= Len(yielded)
            /\ yielded[i] = DecodeErrorItem(emitted[i])

(***************************************************************************)
(* C2.  The discriminator-bearing variants are matched first: a line that  *)
(* carries a valid `action` value together with the required fields of    *)
(* that variant (Version, CacheCleared, TerminateAck) decodes to that      *)
(* variant, whatever fields of Result or Resultless it also carries.       *)
(***************************************************************************)
C2_DiscriminatorVariantsFirst ==
    (decOut.st = "done" /\ decLine.kind = "json") =>
        LET o == decLine.obj
        IN /\ DeVersion(o).ok => decOut.r = DeVersion(o)
           /\ DeCacheCleared(o).ok => decOut.r = DeCacheCleared(o)
           /\ DeTerminateAck(o).ok => decOut.r = DeTerminateAck(o)

(***************************************************************************)
(* C3.  Whatever lines the process emits, once the stream yields nothing   *)
(* more, the Responses it yielded for each id are exactly the Responses    *)
(* the engine emitted for that id, in emission order.                      *)
(***************************************************************************)
ResponseIds == {"a1", "q1"}
Decodes(l) == l.kind = "json" /\ from_str(l).ok
EmittedFor(id) ==
    LET Mine(l) == Decodes(l) /\ from_str(l).v.id = id
        ls == SelectSeq(emitted, Mine)
    IN [i \in DOMAIN ls |-> from_str(ls[i]).v]
YieldedFor(id) ==
    LET Mine(r) == r.id = id
    IN SelectSeq(yielded, Mine)

C3_EmissionOrderPerId ==
    streamState # "open" => \A id \in ResponseIds : YieldedFor(id) = EmittedFor(id)

(***************************************************************************)
(* C4.  The bytes written to stdin, followed by those still buffered, are  *)
(* one line per submitted Action, in submission order: each line is that   *)
(* Action's JSON, exactly one object, and ends in exactly one newline.     *)
(***************************************************************************)
C4_OneLinePerAction ==
    LET w == WireLines(stdinBytes \o sinkBuf)
    IN /\ w.rest = << >>
       /\ Len(w.lines) = Len(submitted)
       /\ \A i \in 1..Len(submitted) :
            /\ w.lines[i] = Render(SerKataAction(submitted[i]))
            /\ OneObject(w.lines[i])

\* Two actions submitted, the first with a newline in its id, part of the
\* bytes written and part still buffered.
C4_Witness ==
    /\ Len(submitted) = 2
    /\ NL \in {submitted[1].id[k] : k \in 1..Len(submitted[1].id)}
    /\ stdinBytes # << >>
    /\ sinkBuf # << >>

(***************************************************************************)
(* C5.  When spawning the process fails, start() hands its caller an error *)
(* value: no sink/stream pair, and no panic.                               *)
(***************************************************************************)
C5_SpawnFailureIsAnErrorValue ==
    spawned = "failed" => startState = "error"

(***************************************************************************)
(* C6.  As claimed: the line                                               *)
(* {"action":"query_version","gitHash":"<omitted>","id":"q1",              *)
(* "version":"1.0"} decodes to a Version (id q1, version 1.0) whose git    *)
(* hash is the omitted sentinel.                                           *)
(***************************************************************************)
AbsentObject ==
    [id |-> JAbsent, isDuringSearch |-> JAbsent, moveInfos |-> JAbsent,
     rootInfo |-> JAbsent, ownership |-> JAbsent, ownershipStdev |-> JAbsent,
     policy |-> JAbsent, turnNumber |-> JAbsent, noResults |-> JAbsent,
     action |-> JAbsent, terminateId |-> JAbsent, git_hash |-> JAbsent,
     gitHash |-> JAbsent, version |-> JAbsent]
VersionLineCamel ==
    JsonLine([AbsentObject EXCEPT !.action = JStr("query_version"),
                                  !.gitHash = JStr("<omitted>"),
                                  !.id = JStr("q1"), !.version = JStr("1.0")])
VersionLineSnake ==
    JsonLine([AbsentObject EXCEPT !.action = JStr("query_version"),
                                  !.git_hash = JStr("<omitted>"),
                                  !.id = JStr("q1"), !.version = JStr("1.0")])

C6_CamelKeyOmittedSentinel ==
    (decOut.st = "done" /\ decLine = VersionLineCamel) =>
        /\ decOut.r.ok
        /\ decOut.r.v.variant = "Version"
        /\ decOut.r.v.id = "q1"
        /\ decOut.r.v.version = "1.0"
        /\ decOut.r.v.git_hash = GitHashOmitted

(***************************************************************************)
(* C6, amended.  A line with action query_version and string values under  *)
(* git_hash, id and version, which is not also a Result or a Resultless,   *)
(* decodes to a Version whose git_hash is that string as an ordinary       *)
(* String ("<omitted>" included: no sentinel is told apart); a line        *)
(* without the key git_hash, with or without gitHash, is no Version.       *)
(***************************************************************************)
C6_SnakeKeyPlainString ==
    (decOut.st = "done" /\ decLine.kind = "json") =>
        LET o == decLine.obj
            r == decOut.r
        IN /\ ( /\ o.action = JStr("query_version")
                /\ o.git_hash.t = "str" /\ o.id.t = "str" /\ o.version.t = "str"
                /\ ~DeResult(o).ok /\ ~DeResultless(o).ok )
              => r = Ok([variant |-> "Version", action |-> "ActionQueryVersion",
                         git_hash |-> RString(o.git_hash.v), id |-> o.id.v,
                         version |-> o.version.v])
           /\ ~Has(o, "git_hash") => ~(r.ok /\ r.v.variant = "Version")
           /\ (r.ok /\ r.v.variant = "Version") => r.v.git_hash # GitHashOmitted

C6_Witness ==
    /\ decOut.st = "done"
    /\ decLine = VersionLineSnake
    /\ decOut.r.ok
    /\ decOut.r.v.git_hash = RString("<omitted>")

(***************************************************************************)
(* C8.  The stream ends only by normal completion at end-of-file: when it  *)
(* can yield nothing more, the process has closed its stdout, every line   *)
(* emitted before that has been yielded as an item, and the end is the     *)
(* stream's completion; closing the sink alone never ends it.              *)
(***************************************************************************)
C8_EndsOnlyAtEof ==
    streamState # "open" =>
        /\ procExited
        /\ Len(yielded) = Len(emitted)
        /\ streamState = "done"

(***************************************************************************)
(* C9.  The encoded object has the key of an optional field exactly when   *)
(* the field is set (an empty collection counts as set), and no key        *)
(* besides those of the action's fields.                                   *)
(***************************************************************************)
QueryOptKeys ==
    [initial_stones |-> "initialStones", initial_player |-> "initialPlayer",
     komi |-> "komi", white_handicap_bonus |-> "whiteHandicapBonus",
     analyze_turns |-> "analyzeTurns", max_visits |-> "maxVisits",
     root_policy_temperature |-> "rootPolicyTemperature",
     root_fpu_reduction_max |-> "rootFpuReductionMax",
     anaysis_pv_len |-> "anaysisPvLen", include_ownership |-> "includeOwnership",
     inlcude_ownership_stdev |-> "inlcudeOwnershipStdev",
     include_moves_ownership |-> "includeMovesOwnership",
     include_moves_ownership_stdev |-> "includeMovesOwnershipStdev",
     include_policy |-> "includePolicy", include_pv_visits |-> "includePvVisits",
     avoid_moves |-> "avoidMoves", allow_moves |-> "allowMoves",
     override_settings |-> "overrideSettings",
     report_during_search_every |-> "reportDuringSearchEvery",
     priority |-> "priority", priorities |-> "priorities"]
QueryReqKeys == {"id", "moves", "rules", "boardXSize", "boardYSize"}

\* The line of an encoded action, without its newline.
EncodedLine == SubSeq(encOut.r.dst, 1, Len(encOut.r.dst) - 1)

C9_OptionalKeyIffSet ==
    encOut.st = "done" =>
        LET keys == TopKeys(EncodedLine)
        IN CASE encAction.variant = "Query" ->
                  /\ \A f \in OptFields :
                        (QueryOptKeys[f] \in keys) <=> (encAction.inner[f] # None)
                  /\ keys \subseteq QueryReqKeys \cup {QueryOptKeys[f] : f \in OptFields}
             [] encAction.variant = "Terminate" ->
                  /\ ("turnNumbers" \in keys) <=> (encAction.turn_numbers # None)
                  /\ keys \subseteq {"id", "action", "terminateId", "turnNumbers"}
             [] OTHER -> keys = {"id", "action"}

\* A Query encoded with analyzeTurns set to the empty list and komi unset.
C9_Witness ==
    /\ encOut.st = "done"
    /\ encAction.variant = "Query"
    /\ encAction.inner.analyze_turns = Some(<< >>)
    /\ encAction.inner.komi = None
    /\ "analyzeTurns" \in TopKeys(EncodedLine)
    /\ "komi" \notin TopKeys(EncodedLine)

(***************************************************************************)
(* C10.  A line without `action`: with id, isDuringSearch, moveInfos and   *)
(* rootInfo it decodes to a Result holding the decoded records, each       *)
(* absent optional array being None; with moveInfos and rootInfo absent    *)
(* and id, isDuringSearch, turnNumber, noResults present it decodes to a   *)
(* Resultless, as {"id":"a1","isDuringSearch":false,"turnNumber":3,        *)
(* "noResults":true} does.                                                 *)
(***************************************************************************)
ResultlessExample ==
    JsonLine([AbsentObject EXCEPT !.id = JStr("a1"),
                                  !.isDuringSearch = JBool(FALSE),
                                  !.turnNumber = JNum(3),
                                  !.noResults = JBool(TRUE)])

C10_ResultVersusResultless ==
    (decOut.st = "done" /\ decLine.kind = "json" /\ ~Has(decLine.obj, "action")) =>
        LET o == decLine.obj
            r == decOut.r
            common == o.id.t = "str" /\ o.isDuringSearch.t = "bool"
        IN /\ (common /\ DeVecMoveInfo(o.moveInfos).ok /\ DeRootInfo(o.rootInfo).ok) =>
                 /\ r.ok
                 /\ r.v.variant = "Result"
                 /\ r.v.id = o.id.v
                 /\ r.v.is_during_search = o.isDuringSearch.v
                 /\ Len(r.v.move_infos) = Len(o.moveInfos.v)
                 /\ r.v.move_infos = DeVecMoveInfo(o.moveInfos).v
                 /\ r.v.root_info = DeRootInfo(o.rootInfo).v
                 /\ ~Has(o, "ownership") => r.v.ownership = None
                 /\ ~Has(o, "ownershipStdev") => r.v.ownership_stdev = None
                 /\ ~Has(o, "policy") => r.v.policy = None
           /\ ( /\ common /\ ~Has(o, "moveInfos") /\ ~Has(o, "rootInfo")
                /\ DeU16(o.turnNumber).ok /\ o.noResults.t = "bool" ) =>
                 r = Ok([variant |-> "Resultless", id |-> o.id.v,
                         is_during_search |-> o.isDuringSearch.v,
                         turn_number |-> o.turnNumber.v,
                         no_results |-> o.noResults.v])
           /\ decLine = ResultlessExample =>
                 r = Ok([variant |-> "Resultless", id |-> "a1",
                         is_during_search |-> FALSE, turn_number |-> 3,
                         no_results |-> TRUE])

\* A decoded line that has the fields of a Result and those of a Resultless,
\* and none of the optional arrays.
C10_Witness ==
    /\ decOut.st = "done"
    /\ decLine.kind = "json"
    /\ ~Has(decLine.obj, "action")
    /\ Has(decLine.obj, "moveInfos") /\ DeRootInfo(decLine.obj.rootInfo).ok
    /\ DeU16(decLine.obj.turnNumber).ok /\ Has(decLine.obj, "noResults")
    /\ ~Has(decLine.obj, "ownership") /\ ~Has(decLine.obj, "policy")
    /\ decOut.r.ok
    /\ decOut.r.v.variant = "Result"
    /\ decOut.r.v.policy = None

====
